---- MODULE Spec2Model ----
(***************************************************************************)
(* The event publisher of src/core/zmq-publisher.ts: the class             *)
(* ZmqEventPublisher (connect, publishEvent, disconnect), the registry     *)
(* publisherInstances (getZmqPublisher, shutdownZmqPublisher) and the      *)
(* wiring function enableZmqPublishing.                                    *)
(*                                                                         *)
(* JavaScript runs one piece of code at a time: an async function runs     *)
(* without interruption up to its next await, and resumes later.  Each     *)
(* action below is one such uninterrupted piece: the synchronous part of   *)
(* an external call, or the resumption of a suspended call.  A suspended   *)
(* call is a record in the bag tasks.                                      *)
(***************************************************************************)
EXTENDS Bags, FiniteSets, Integers, Sequences, TLC

\* ---- bounds of the model -------------------------------------------------
MaxOps == 4           \* one publisher: calls made from outside, plus send()
                      \*   calls that throw
MaxRegistryOps == 3   \* the same, for the registry
MaxWiringOps == 3     \* the same, for the wiring
MaxSignalOps == 3     \* the same, for the registry with the process events
MaxShutdownOps == 3   \* the same, for the registry that is shut down
MaxAttempts == 2      \* connect attempts started (explicit and background)

VARIABLES
  socketPath,          \* per instance: this.socketPath
  publisher,           \* per instance: this.publisher (Null or a handle)
  isConnected,         \* per instance: this.isConnected
  eventQueue,          \* per instance: this.eventQueue
  publisherInstances,  \* the Map, as its entry list in insertion order
  listeners,           \* listeners of the emitter's 'event', in order
  onceHandlers,        \* one-shot process handlers installed, per signal
  tasks,               \* bag of suspended async calls
  closed,              \* handles whose close() has completed
  nextHandle,          \* handles are numbered as new Publisher() makes them
  nextEvent,           \* events are numbered as publishEvent accepts them
  attempts,            \* connect attempts started so far
  ops,                 \* calls from outside, and send() failures on an open
                       \*   socket, still to come
  submitted,           \* history, per instance: ids accepted from outside
  delivered,           \* history: how often each id was sent successfully
  markedAt,            \* history, per instance: nextEvent when line 46 last
                       \*   set isConnected (0: it never did)
  awaiting,            \* history, per instance: the ids of the serializable
                       \*   events queued at that time and not passed to
                       \*   send() since, in queue order
  got,                 \* history, per endpoint: the instances that
                       \*   getZmqPublisher returned, call by call, since the
                       \*   registry was last cleared
  threw,               \* history: the calls that threw to their caller
  invoked,             \* history, per signal: how many shutdownZmqPublisher
                       \*   calls each occurrence of it made, in order
  optedOut             \* history: how many enableZmqPublishing calls were
                       \*   made with zmq: false

vars == <<socketPath, publisher, isConnected, eventQueue, publisherInstances,
          listeners, onceHandlers, tasks, closed, nextHandle, nextEvent,
          attempts, ops, submitted, delivered, markedAt, awaiting, got,
          threw, invoked, optedOut>>

pubVars == <<socketPath, publisher, isConnected, eventQueue>>
regVars == <<publisherInstances, listeners, onceHandlers, got, invoked,
            optedOut>>
histVars == <<submitted, delivered, markedAt, awaiting>>

\* ---- values --------------------------------------------------------------
Null == 0
NoSource == [script |-> "", pid |-> "", hostname |-> ""]
NoEvent == [id |-> 0, source |-> NoSource, circular |-> FALSE]

\* ZmqSocketOptions: the two optional fields, "" when absent.
NoOptions == [socketName |-> "", socketPath |-> ""]
OptionSet ==
  { NoOptions,
    [socketName |-> "events", socketPath |-> ""],
    [socketName |-> "events", socketPath |-> "/run/bus.sock"] }

\* getZmqSocketPath of ./zmq-socket.js: an explicit path wins over a socket
\* name, and with neither the default name is used.
getZmqSocketPath(options) ==
  IF options.socketPath # "" THEN <<"path", options.socketPath>>
  ELSE IF options.socketName # "" THEN <<"name", options.socketName>>
  ELSE <<"name", "events">>

Endpoints == { getZmqSocketPath(o) : o \in OptionSet }

\* The process events that lines 165-167 install handlers for.
Signals == {"SIGINT", "SIGTERM", "exit"}

Pubs == 1..Len(socketPath)

\* A suspended call.  kind and pc say which await it is suspended on; ev and
\* h are the event and the handle of the transport operation it waits for;
\* caller says who awaits it; idx is the Map iterator's position (shutdown)
\* and src the Source record of an enableZmqPublishing call.
Task(kind, p, pc, ev, h, caller, idx, src) ==
  [kind |-> kind, pub |-> p, pc |-> pc, ev |-> ev, h |-> h,
   caller |-> caller, idx |-> idx, src |-> src]

ConnectTask(p, pc, ev, h, caller, src) ==
  Task("connect", p, pc, ev, h, caller, 0, src)

One(t) == SetToBag({t})
Running == BagToSet(tasks)

\* The connect calls of instance p that are suspended.
Connecting(p) == { t \in Running : t.kind = "connect" /\ t.pub = p }

\* How many of them there are.
InFlight(p) == BagCardinality([t \in Connecting(p) |-> tasks[t]])

\* The call op made by caller on instance p throws.
Throws(op, p, caller) == threw \cup {[op |-> op, pub |-> p, caller |-> caller]}

\* ---- histories -------------------------------------------------------------
\* The ids of the events of a queue.
Ids(q) == [i \in DOMAIN q |-> q[i].id]

\* The ids of its events that JSON.stringify accepts: only these can reach
\* send().
SerialIds(q) == Ids(SelectSeq(q, LAMBDA ev : ~ev.circular))

Range(f) == { f[i] : i \in DOMAIN f }

\* The ids passed to send() by the step from the suspended calls old to the
\* suspended calls new: every send() leaves a call suspended on it.
Handed(old, new) ==
  { t.ev.id : t \in { u \in BagToSet(new) :
                        u.pc = "send" /\ CopiesIn(u, new) > CopiesIn(u, old) } }

\* Those of them that instance p passed.
HandedOn(p, old, new) ==
  { t.ev.id : t \in { u \in BagToSet(new) :
                        /\ u.pc = "send" /\ u.pub = p
                        /\ CopiesIn(u, new) > CopiesIn(u, old) } }

\* ids without those passed to send() by that step.
Unsent(ids, old, new) == SelectSeq(ids, LAMBDA e : e \notin Handed(old, new))

\* ---- ZmqEventPublisher.publishEvent ---------------------------------------
\* Which way one publishEvent(ev) call goes, given the flag and the handle
\* it reads: "queue" (lines 61-69), "requeue" (JSON.stringify throws, lines
\* 72 and 74-76) or "send" (line 73).
PublishPathBoth(conn, hnd, ev) ==
  IF ~conn /\ hnd = Null THEN "queue"
  ELSE IF ev.circular THEN "requeue"
  ELSE "send"

PublishPath(conn, hnd, ev) ==
  IF ~conn \/ hnd = Null THEN "queue"
  ELSE IF ev.circular THEN "requeue"
  ELSE "send"

\* Line 63: publishEvent starts a background connect().
StartsConnect(conn) == ~conn

PublishCatchRethrows(th, p, caller) == Throws("publishEvent", p, caller)

\* What the catch block of lines 74-77 lets through to the caller of
\* publishEvent, th being the calls that threw so far: it logs the error of
\* JSON.stringify or send() and does not rethrow it.
PublishCatch(th, p, caller) == th

\* The part of the state the synchronous part of publishEvent touches: the
\* queues, the suspended calls, the attempts started, and the histories.
Touched ==
  [q |-> eventQueue, t |-> tasks, at |-> attempts, ne |-> nextEvent,
   sub |-> submitted, th |-> threw]

\* The synchronous part of a publishEvent call made from outside (caller
\* "ext") or by a listener (caller "listener") on instance p, with an event
\* that carries the given source and is or is not serializable.
PublishSync(s, p, source, circular, caller) ==
  LET ev == [id |-> s.ne, source |-> source, circular |-> circular]
      path == PublishPath(isConnected[p], publisher[p], ev)
      s1 == [s EXCEPT !.ne = @ + 1, !.sub[p] = Append(@, ev.id)] IN
  IF path = "queue" THEN
    IF StartsConnect(isConnected[p])
    THEN [s1 EXCEPT
            !.q[p] = Append(@, ev),
            !.t = @ (+) One(ConnectTask(p, "ensure", NoEvent, Null, "bg", NoSource)),
            !.at = @ + 1]
    ELSE [s1 EXCEPT !.q[p] = Append(@, ev)]
  ELSE IF path = "requeue" THEN
    [s1 EXCEPT !.q[p] = Append(@, ev), !.th = PublishCatch(@, p, caller)]
  ELSE
    [s1 EXCEPT
       !.t = @ (+) One(Task("publish", p, "send", ev, publisher[p], caller, 0, NoSource))]

\* The state after the synchronous part r.
Becomes(r) ==
  /\ ops > 0
  /\ ops' = ops - 1
  /\ r.at <= MaxAttempts
  /\ eventQueue' = r.q
  /\ tasks' = r.t
  /\ attempts' = r.at
  /\ nextEvent' = r.ne
  /\ submitted' = r.sub
  /\ threw' = r.th

\* publishEvent(event) called from outside on instance p.
PublishEvent(p, circular) ==
  /\ Becomes(PublishSync(Touched, p, NoSource, circular, "ext"))
  /\ awaiting' = [i \in DOMAIN awaiting |-> Unsent(awaiting[i], tasks, tasks')]
  /\ UNCHANGED <<socketPath, publisher, isConnected, regVars, closed,
                 nextHandle, delivered, markedAt>>

\* await this.publisher.send(message) of a publishEvent call completes: a
\* socket that close() has closed accepts no message.
PublishSendOk(t) ==
  /\ t.kind = "publish" /\ t.pc = "send"
  /\ t.h \notin closed
  /\ tasks' = tasks (-) One(t)
  /\ delivered' = delivered (+) One(t.ev.id)
  /\ threw' = threw
  /\ UNCHANGED <<pubVars, regVars, closed, nextHandle, nextEvent, attempts,
                 ops, submitted, markedAt, awaiting>>

RequeueDropped(q, ev) == q

RequeueAtHead(q, ev) == <<ev>> \o q

\* The queue after the catch block of lines 74-76.
Requeue(q, ev) == Append(q, ev)

\* It throws, as it must on a closed socket and may on an open one: lines
\* 74-76 log and push the event.
PublishSendFail(t) ==
  /\ t.kind = "publish" /\ t.pc = "send"
  /\ t.h \in closed \/ ops > 0
  /\ ops' = IF t.h \in closed THEN ops ELSE ops - 1
  /\ tasks' = tasks (-) One(t)
  /\ eventQueue' = [eventQueue EXCEPT ![t.pub] = Requeue(@, t.ev)]
  /\ threw' = PublishCatch(threw, t.pub, t.caller)
  /\ UNCHANGED <<socketPath, publisher, isConnected, regVars, closed,
                 nextHandle, nextEvent, attempts, histVars>>

\* ---- ZmqEventPublisher.connect --------------------------------------------
\* What the awaiting caller of a connect() that returns or throws does next:
\* enableZmqPublishing resumes after its try/catch (lines 134-138), other
\* callers are outside the model.
AfterConnect(t) ==
  IF t.caller = "enable"
  THEN One(Task("enable", t.pub, "ready", NoEvent, Null, "ext", 0, t.src))
  ELSE EmptyBag

\* One evaluation of the drain loop of lines 48-53 by the suspended connect
\* call t, conn being the value of this.isConnected it runs with: the loop
\* ends and connect returns, or the head of the queue is shifted and given
\* to publishEvent, whose synchronous part runs before connect awaits it.
Drain(t, conn) ==
  LET p == t.pub
      q == eventQueue[p]
      rest == tasks (-) One(t)
      loop == One(ConnectTask(p, "loop", NoEvent, Null, t.caller, t.src)) IN
  IF q = <<>> THEN
    /\ tasks' = rest (+) AfterConnect(t)
    /\ UNCHANGED <<eventQueue, attempts>>
  ELSE
    LET ev == Head(q)
        path == PublishPath(conn, publisher[p], ev) IN
    /\ IF path = "send" THEN
         /\ eventQueue' = [eventQueue EXCEPT ![p] = Tail(q)]
         /\ tasks' = rest (+) One(ConnectTask(p, "send", ev, publisher[p], t.caller, t.src))
         /\ UNCHANGED attempts
       ELSE
         /\ eventQueue' = [eventQueue EXCEPT ![p] = Append(Tail(q), ev)]
         /\ IF path = "queue" /\ StartsConnect(conn) THEN
              /\ attempts < MaxAttempts
              /\ attempts' = attempts + 1
              /\ tasks' = (rest (+) loop)
                            (+) One(ConnectTask(p, "ensure", NoEvent, Null, "bg", NoSource))
            ELSE
              /\ attempts' = attempts
              /\ tasks' = rest (+) loop

\* connect() called from outside on instance p (lines 32-38): it returns at
\* once when connected, else it suspends on ensureZmqSocketDirectory().
Connect(p) ==
  /\ ops > 0
  /\ ops' = ops - 1
  /\ IF isConnected[p] THEN
       UNCHANGED <<tasks, attempts>>
     ELSE
       /\ attempts < MaxAttempts
       /\ tasks' = tasks (+) One(ConnectTask(p, "ensure", NoEvent, Null, "ext", NoSource))
       /\ attempts' = attempts + 1
  /\ UNCHANGED <<pubVars, regVars, closed, nextHandle, nextEvent, histVars,
                 threw>>

\* ensureZmqSocketDirectory() is done: lines 40-42 make the handle, store it
\* in this.publisher and call its connect().
ConnectEnsured(t) ==
  /\ t.kind = "connect" /\ t.pc = "ensure"
  /\ publisher' = [publisher EXCEPT ![t.pub] = nextHandle]
  /\ nextHandle' = nextHandle + 1
  /\ tasks' = (tasks (-) One(t))
                (+) One(ConnectTask(t.pub, "open", NoEvent, nextHandle, t.caller, t.src))
  /\ UNCHANGED <<socketPath, isConnected, eventQueue, regVars, closed,
                 nextEvent, attempts, ops, histVars, threw>>

\* ensureZmqSocketDirectory() throws: lines 54-56 log and rethrow.
ConnectEnsureFail(t) ==
  /\ t.kind = "connect" /\ t.pc = "ensure"
  /\ tasks' = (tasks (-) One(t)) (+) AfterConnect(t)
  /\ threw' = Throws("connect", t.pub, t.caller)
  /\ UNCHANGED <<pubVars, regVars, closed, nextHandle, nextEvent, attempts,
                 ops, histVars>>

\* this.publisher.connect(this.socketPath) throws: lines 54-56 log and
\* rethrow; this.publisher keeps what line 40 stored.
ConnectOpenFail(t) ==
  /\ t.kind = "connect" /\ t.pc = "open"
  /\ tasks' = (tasks (-) One(t)) (+) AfterConnect(t)
  /\ threw' = Throws("connect", t.pub, t.caller)
  /\ UNCHANGED <<pubVars, regVars, closed, nextHandle, nextEvent, attempts,
                 ops, histVars>>

\* this.publisher.connect(this.socketPath) is done and the settle delay of
\* line 44, which changes nothing, is over: line 46 sets the flag and the
\* drain loop starts in the same piece of code.
ConnectSettled(t) ==
  /\ t.kind = "connect" /\ t.pc = "open"
  /\ isConnected' = [isConnected EXCEPT ![t.pub] = TRUE]
  /\ markedAt' = [markedAt EXCEPT ![t.pub] = nextEvent]
  /\ Drain(t, TRUE)
  /\ awaiting' = [awaiting EXCEPT ![t.pub] =
                    Unsent(SerialIds(eventQueue[t.pub]), tasks, tasks')]
  /\ UNCHANGED <<socketPath, publisher, regVars, closed, nextHandle,
                 nextEvent, ops, submitted, delivered, threw>>

\* The send of the publishEvent call the drain loop awaits succeeds.
ConnectSendOk(t) ==
  /\ t.kind = "connect" /\ t.pc = "send"
  /\ t.h \notin closed
  /\ delivered' = delivered (+) One(t.ev.id)
  /\ tasks' = (tasks (-) One(t))
                (+) One(ConnectTask(t.pub, "loop", NoEvent, Null, t.caller, t.src))
  /\ UNCHANGED <<pubVars, regVars, closed, nextHandle, nextEvent, attempts,
                 ops, submitted, markedAt, awaiting, threw>>

\* It throws: lines 74-76 push the event, and publishEvent returns.
ConnectSendFail(t) ==
  /\ t.kind = "connect" /\ t.pc = "send"
  /\ t.h \in closed \/ ops > 0
  /\ ops' = IF t.h \in closed THEN ops ELSE ops - 1
  /\ eventQueue' = [eventQueue EXCEPT ![t.pub] = Requeue(@, t.ev)]
  /\ tasks' = (tasks (-) One(t))
                (+) One(ConnectTask(t.pub, "loop", NoEvent, Null, t.caller, t.src))
  /\ threw' = PublishCatch(threw, t.pub, "drain")
  /\ UNCHANGED <<socketPath, publisher, isConnected, regVars, closed,
                 nextHandle, nextEvent, attempts, histVars>>

\* The publishEvent call the drain loop awaits has returned: the loop
\* condition of line 48 is evaluated again.
ConnectLoop(t) ==
  /\ t.kind = "connect" /\ t.pc = "loop"
  /\ Drain(t, isConnected[t.pub])
  /\ awaiting' = [awaiting EXCEPT ![t.pub] = Unsent(@, tasks, tasks')]
  /\ UNCHANGED <<socketPath, publisher, isConnected, regVars, closed,
                 nextHandle, nextEvent, ops, submitted, delivered,
                 markedAt, threw>>

\* ---- ZmqEventPublisher.disconnect -----------------------------------------
\* What the awaiting caller of a disconnect() that returns does next:
\* shutdownZmqPublisher goes on with its loop from entry idx.
AfterDisconnect(caller, idx) ==
  IF caller = "shutdown"
  THEN One(Task("shutdown", 0, "next", NoEvent, Null, "ext", idx, NoSource))
  ELSE EmptyBag

DisconnectSyncAlways(p, caller, idx) ==
  One(Task("disconnect", p, "close", NoEvent, publisher[p], caller, idx, NoSource))

\* The synchronous part of disconnect() on instance p (lines 81-83): with a
\* handle it suspends on close(), without one it returns.
DisconnectSync(p, caller, idx) ==
  IF publisher[p] # Null
  THEN One(Task("disconnect", p, "close", NoEvent, publisher[p], caller, idx, NoSource))
  ELSE AfterDisconnect(caller, idx)

\* disconnect() called from outside on instance p.
Disconnect(p) ==
  /\ ops > 0
  /\ ops' = ops - 1
  /\ tasks' = tasks (+) DisconnectSync(p, "ext", 0)
  /\ UNCHANGED <<pubVars, regVars, closed, nextHandle, nextEvent, attempts,
                 histVars, threw>>

\* Lines 87-88, after close() returned or threw.
Release(t) ==
  /\ publisher' = [publisher EXCEPT ![t.pub] = Null]
  /\ isConnected' = [isConnected EXCEPT ![t.pub] = FALSE]
  /\ tasks' = (tasks (-) One(t)) (+) AfterDisconnect(t.caller, t.idx)
  /\ threw' = threw

\* await this.publisher.close() is done.
DisconnectClosed(t) ==
  /\ t.kind = "disconnect" /\ t.pc = "close"
  /\ closed' = closed \cup {t.h}
  /\ Release(t)
  /\ UNCHANGED <<socketPath, eventQueue, regVars, nextHandle, nextEvent,
                 attempts, ops, histVars>>

\* close() throws: lines 84-86 log.
DisconnectCloseFail(t) ==
  /\ t.kind = "disconnect" /\ t.pc = "close"
  /\ Release(t)
  /\ UNCHANGED <<socketPath, eventQueue, regVars, closed, nextHandle,
                 nextEvent, attempts, ops, histVars>>

\* ---- one publisher ---------------------------------------------------------
\* What the constructor (lines 23-30) gives a new instance.
Fresh(options) ==
  [socketPath |-> getZmqSocketPath(options), publisher |-> Null,
   isConnected |-> FALSE, eventQueue |-> <<>>]

\* The state with the instances ps (a sequence of Fresh records) and an
\* empty registry.
Start(ps, budget) ==
  /\ socketPath = [i \in DOMAIN ps |-> ps[i].socketPath]
  /\ publisher = [i \in DOMAIN ps |-> ps[i].publisher]
  /\ isConnected = [i \in DOMAIN ps |-> ps[i].isConnected]
  /\ eventQueue = [i \in DOMAIN ps |-> ps[i].eventQueue]
  /\ publisherInstances = <<>>
  /\ listeners = <<>>
  /\ onceHandlers = [s \in Signals |-> 0]
  /\ tasks = EmptyBag
  /\ closed = {}
  /\ nextHandle = 1
  /\ nextEvent = 1
  /\ attempts = 0
  /\ ops = budget
  /\ submitted = [i \in DOMAIN ps |-> <<>>]
  /\ delivered = EmptyBag
  /\ markedAt = [i \in DOMAIN ps |-> 0]
  /\ awaiting = [i \in DOMAIN ps |-> <<>>]
  /\ got = [k \in Endpoints |-> <<>>]
  /\ threw = {}
  /\ invoked = [s \in Signals |-> <<>>]
  /\ optedOut = 0

\* After new ZmqEventPublisher(): one instance, outside the registry.
Init == Start(<<Fresh(NoOptions)>>, MaxOps)

Next ==
  \/ \E p \in Pubs : Connect(p)
  \/ \E p \in Pubs, circular \in BOOLEAN : PublishEvent(p, circular)
  \/ \E p \in Pubs : Disconnect(p)
  \/ \E t \in Running : PublishSendOk(t)
  \/ \E t \in Running : PublishSendFail(t)
  \/ \E t \in Running : ConnectEnsured(t)
  \/ \E t \in Running : ConnectEnsureFail(t)
  \/ \E t \in Running : ConnectOpenFail(t)
  \/ \E t \in Running : ConnectSettled(t)
  \/ \E t \in Running : ConnectSendOk(t)
  \/ \E t \in Running : ConnectSendFail(t)
  \/ \E t \in Running : ConnectLoop(t)
  \/ \E t \in Running : DisconnectClosed(t)
  \/ \E t \in Running : DisconnectCloseFail(t)

Spec == Init /\ [][Next]_vars

\* The event loop resumes every suspended call whose awaited operation has
\* completed, and every transport operation completes, one way or the other.
Fairness ==
  /\ WF_vars(\E t \in Running : PublishSendOk(t) \/ PublishSendFail(t))
  /\ WF_vars(\E t \in Running : ConnectEnsured(t) \/ ConnectEnsureFail(t))
  /\ WF_vars(\E t \in Running : ConnectOpenFail(t) \/ ConnectSettled(t))
  /\ WF_vars(\E t \in Running : ConnectSendOk(t) \/ ConnectSendFail(t))
  /\ WF_vars(\E t \in Running : ConnectLoop(t))
  /\ WF_vars(\E t \in Running : DisconnectClosed(t) \/ DisconnectCloseFail(t))

\* One publisher, with calls from outside at any time or never.
SpecLive == Init /\ [][Next]_vars /\ Fairness

\* ---- the registry ----------------------------------------------------------
\* An entry of the Map; clear() empties the entries and leaves their places
\* in the list, so that a running iterator keeps its position.
Entry(key, p) == [key |-> key, inst |-> p]
Emptied == [key |-> <<"", "">>, inst |-> 0]

\* publisherInstances.get(key), as the set of places that hold key.
Found(key) == { i \in DOMAIN publisherInstances : publisherInstances[i].key = key }

LookupAlwaysNew(options) == Len(socketPath) + 1

\* The instance getZmqPublisher(options) returns (lines 98-106): the one the
\* Map holds for the resolved path, else a new one.
Lookup(options) ==
  LET key == getZmqSocketPath(options) IN
  IF Found(key) # {}
  THEN publisherInstances[CHOOSE i \in Found(key) : TRUE].inst
  ELSE Len(socketPath) + 1

\* What getZmqPublisher(options) does to the state.
GetZmq(options) ==
  LET key == getZmqSocketPath(options)
      p == Lookup(options)
      new == Fresh(options) IN
  /\ got' = [got EXCEPT ![key] = Append(@, p)]
  /\ IF p \in Pubs THEN
       UNCHANGED <<pubVars, publisherInstances, submitted, markedAt, awaiting>>
     ELSE
       /\ socketPath' = Append(socketPath, new.socketPath)
       /\ publisher' = Append(publisher, new.publisher)
       /\ isConnected' = Append(isConnected, new.isConnected)
       /\ eventQueue' = Append(eventQueue, new.eventQueue)
       /\ publisherInstances' = Append(publisherInstances, Entry(key, p))
       /\ submitted' = Append(submitted, <<>>)
       /\ markedAt' = Append(markedAt, 0)
       /\ awaiting' = Append(awaiting, <<>>)

\* getZmqPublisher(options) called from outside.
GetPublisher(options) ==
  /\ ops > 0
  /\ ops' = ops - 1
  /\ GetZmq(options)
  /\ UNCHANGED <<listeners, onceHandlers, invoked, optedOut, tasks, closed,
                 nextHandle, nextEvent, attempts, delivered, threw>>

\* The for-of loop of lines 110-113 from place idx of the entry list, run by
\* the suspended call old (EmptyBag: the call starts): it calls disconnect()
\* on the next entry and awaits it, or it is past the last entry and line
\* 113 clears the Map.
ShutdownFrom(old, idx) ==
  LET left == { i \in DOMAIN publisherInstances :
                  i >= idx /\ publisherInstances[i] # Emptied } IN
  IF left = {} THEN
    /\ publisherInstances' = [i \in DOMAIN publisherInstances |-> Emptied]
    /\ got' = [k \in Endpoints |-> <<>>]
    /\ tasks' = tasks (-) old
  ELSE
    LET j == CHOOSE i \in left : \A k \in left : i <= k
        p == publisherInstances[j].inst IN
    /\ tasks' = (tasks (-) old) (+) DisconnectSync(p, "shutdown", j + 1)
    /\ UNCHANGED <<publisherInstances, got>>

\* shutdownZmqPublisher() called from outside.
Shutdown ==
  /\ ops > 0
  /\ ops' = ops - 1
  /\ ShutdownFrom(EmptyBag, 1)
  /\ UNCHANGED <<pubVars, listeners, onceHandlers, invoked, optedOut, closed,
                 nextHandle, nextEvent, attempts, histVars, threw>>

\* The disconnect() that shutdownZmqPublisher awaits has returned.
ShutdownNext(t) ==
  /\ t.kind = "shutdown" /\ t.pc = "next"
  /\ ShutdownFrom(One(t), t.idx)
  /\ UNCHANGED <<pubVars, listeners, onceHandlers, invoked, optedOut, closed,
                 nextHandle, nextEvent, attempts, ops, histVars, threw>>

\* ---- enableZmqPublishing ---------------------------------------------------
\* The Source record of lines 140-147.
Source(script) ==
  [script |-> IF script = "" THEN "unknown" ELSE script,
   pid |-> "process.pid", hostname |-> "os.hostname()"]

DisabledNever(zmq) == FALSE

\* Line 125: options.zmq === false, zmq being "true", "false" or
\* "undefined".
Disabled(zmq) == zmq = "false"

\* enableZmqPublishing(emitter, options) called from outside, up to its
\* await of publisher.connect() (lines 125-135).
Enable(options, zmq, script) ==
  /\ ops > 0
  /\ ops' = ops - 1
  /\ IF Disabled(zmq) THEN
       UNCHANGED <<pubVars, publisherInstances, got, submitted, markedAt,
                   awaiting, tasks, attempts>>
     ELSE
       LET p == Lookup(options) IN
       /\ GetZmq(options)
       /\ IF p \in Pubs /\ isConnected[p] THEN
            /\ tasks' = tasks (+) One(Task("enable", p, "ready", NoEvent, Null,
                                           "ext", 0, Source(script)))
            /\ attempts' = attempts
          ELSE
            /\ attempts < MaxAttempts
            /\ attempts' = attempts + 1
            /\ tasks' = tasks (+) One(ConnectTask(p, "ensure", NoEvent, Null,
                                                  "enable", Source(script)))
  /\ optedOut' = IF zmq = "false" THEN optedOut + 1 ELSE optedOut
  /\ UNCHANGED <<listeners, onceHandlers, invoked, closed,
                 nextHandle, nextEvent, delivered, threw>>

\* Its connect() has returned or thrown: lines 140-167 subscribe the
\* listener and install the three one-shot handlers.
EnableReady(t) ==
  /\ t.kind = "enable" /\ t.pc = "ready"
  /\ tasks' = tasks (-) One(t)
  /\ listeners' = Append(listeners, [pub |-> t.pub, src |-> t.src])
  /\ onceHandlers' = [s \in DOMAIN onceHandlers |-> onceHandlers[s] + 1]
  /\ UNCHANGED <<pubVars, publisherInstances, got, invoked, optedOut,
                 closed, nextHandle, nextEvent, attempts, ops, histVars,
                 threw>>

\* An event that already carries a source.
Foreign == [script |-> "other", pid |-> "1", hostname |-> "elsewhere"]

\* The events given to the emitter: what matters of the payload is whether
\* JSON.stringify accepts it, and the source field may be there already.
Events ==
  { [circular |-> FALSE], [circular |-> TRUE],
    [circular |-> FALSE, source |-> Foreign] }

StampKeeps(event, source) ==
  IF "source" \in DOMAIN event THEN event
  ELSE [f \in DOMAIN event \cup {"source"} |->
          IF f = "source" THEN source ELSE event[f]]

\* { ...event, source } of lines 151-154: the fields of event, and source
\* in the field source whether event has that field or not.
Stamp(event, source) ==
  [f \in DOMAIN event \cup {"source"} |->
     IF f = "source" THEN source ELSE event[f]]

\* The instances a subscribed listener forwards events to.
Listened == { listeners[i].pub : i \in DOMAIN listeners }

\* The listeners from the k-th on receive one emitted event, each calling
\* publishEvent with its own Source merged in (lines 149-155).
RECURSIVE EmitFrom(_, _, _)
EmitFrom(s, k, event) ==
  IF k > Len(listeners) THEN s
  ELSE LET fwd == Stamp(event, listeners[k].src) IN
       EmitFrom(PublishSync(s, listeners[k].pub, fwd.source, fwd.circular, "listener"),
                k + 1, event)

\* emitter.emit('event', event).
Emit(event) ==
  /\ Becomes(EmitFrom(Touched, 1, event))
  /\ awaiting' = [i \in DOMAIN awaiting |-> Unsent(awaiting[i], tasks, tasks')]
  /\ UNCHANGED <<socketPath, publisher, isConnected, publisherInstances,
                 listeners, onceHandlers, got, invoked, optedOut, closed,
                 nextHandle, delivered, markedAt>>

\* n copies of each element of the bag b.
Times(b, n) == [x \in DOMAIN b |-> n * b[x]]

\* The process event s occurs: the one-shot handlers installed for it are
\* removed and run one after the other, each up to the first await of its
\* shutdownZmqPublisher() call (lines 161-163 and 110-113).  They all find
\* the same Map: they clear it when it is empty, else each calls
\* disconnect() on its first instance.  The process goes on when a handler
\* took the signal; on 'exit', and on a signal that nothing handles, it
\* ends: no suspended call resumes and no call is made any more.
Signal(s) ==
  LET n == onceHandlers[s]
      ends == s = "exit" \/ n = 0
      left == { i \in DOMAIN publisherInstances : publisherInstances[i] # Emptied } IN
  /\ ops > 0
  /\ ops' = IF ends THEN 0 ELSE ops - 1
  /\ invoked' = [invoked EXCEPT ![s] = Append(@, n)]
  /\ onceHandlers' = [onceHandlers EXCEPT ![s] = 0]
  /\ IF n = 0 \/ left = {} THEN
       tasks' = IF ends THEN EmptyBag ELSE tasks
     ELSE
       LET j == CHOOSE i \in left : \A k \in left : i <= k
           p == publisherInstances[j].inst IN
       tasks' = IF ends THEN EmptyBag
                ELSE tasks (+) Times(DisconnectSync(p, "shutdown", j + 1), n)
  /\ UNCHANGED <<pubVars, publisherInstances, listeners, got, optedOut,
                 closed, nextHandle, nextEvent, attempts, histVars, threw>>

InitRegistry == Start(<<>>, MaxRegistryOps)

NextRegistry ==
  \/ \E o \in OptionSet : GetPublisher(o)
  \/ Shutdown
  \/ \E o \in OptionSet, zmq \in {"true", "undefined"} :
       Enable(o, zmq, "recorder")
  \/ \E event \in Events : Emit(event)
  \/ \E t \in Running : PublishSendOk(t)
  \/ \E t \in Running : PublishSendFail(t)
  \/ \E t \in Running : ConnectEnsured(t)
  \/ \E t \in Running : ConnectEnsureFail(t)
  \/ \E t \in Running : ConnectOpenFail(t)
  \/ \E t \in Running : ConnectSettled(t)
  \/ \E t \in Running : ConnectSendOk(t)
  \/ \E t \in Running : ConnectSendFail(t)
  \/ \E t \in Running : ConnectLoop(t)
  \/ \E t \in Running : DisconnectClosed(t)
  \/ \E t \in Running : DisconnectCloseFail(t)
  \/ \E t \in Running : ShutdownNext(t)
  \/ \E t \in Running : EnableReady(t)

SpecRegistry == InitRegistry /\ [][NextRegistry]_vars

\* ---- the wiring: enableZmqPublishing and the emitter ------------------------
\* No shutdown and no disconnect here: the handles stay open.
InitWiring == Start(<<>>, MaxWiringOps)

NextWiring ==
  \/ \E o \in OptionSet, zmq \in {"true", "false", "undefined"},
        script \in {"", "recorder"} :
       Enable(o, zmq, script)
  \/ \E event \in Events : Emit(event)
  \/ \E t \in Running : PublishSendOk(t)
  \/ \E t \in Running : PublishSendFail(t)
  \/ \E t \in Running : ConnectEnsured(t)
  \/ \E t \in Running : ConnectEnsureFail(t)
  \/ \E t \in Running : ConnectOpenFail(t)
  \/ \E t \in Running : ConnectSettled(t)
  \/ \E t \in Running : ConnectSendOk(t)
  \/ \E t \in Running : ConnectSendFail(t)
  \/ \E t \in Running : ConnectLoop(t)
  \/ \E t \in Running : EnableReady(t)

SpecWiring == InitWiring /\ [][NextWiring]_vars

\* ---- the registry, with the process events ---------------------------------
InitSignals == Start(<<>>, MaxSignalOps)

NextSignals ==
  \/ NextRegistry
  \/ \E s \in Signals : Signal(s)

SpecSignals == InitSignals /\ [][NextSignals]_vars

\* ---- properties of one publisher -------------------------------------------
\* The step passes line 46 for instance p: a connect call suspended on the
\* open is gone and an event is passed to send(), or the mark moved.
Marks(p) ==
  \/ markedAt'[p] # markedAt[p]
  \/ /\ HandedOn(p, tasks, tasks') # {}
     /\ \E t \in Connecting(p) : t.pc = "open" /\ CopiesIn(t, tasks') < CopiesIn(t, tasks)

\* C1: once connect() has marked the publisher connected, the events queued
\* at that moment are passed to send() in queue order, and every one of
\* them before any event submitted after that moment is passed to send(),
\* also when that event is submitted while the drain loop is suspended on
\* a send.  (Stated for the events that can be serialized: the others never
\* reach send().)
C1_DrainBeforeNew ==
  [][\A p \in Pubs :
       LET left == IF Marks(p) THEN SerialIds(eventQueue[p]) ELSE awaiting[p]
           since == IF Marks(p) THEN nextEvent ELSE markedAt[p] IN
       \A e \in HandedOn(p, tasks, tasks') :
         since # 0 =>
           IF e \in Range(left) THEN e = Head(left)
           ELSE e >= since => left = <<>>]_vars

\* C2: while no connect has marked the publisher connected, the queue holds
\* exactly the events submitted, in submission order: none was passed to
\* send(), sent, dropped or duplicated, and no publishEvent call threw.
C2_UnconnectedBuffersAll ==
  \A p \in Pubs :
    markedAt[p] = 0 =>
      /\ Ids(eventQueue[p]) = submitted[p]
      /\ \A t \in Running : t.pub = p => t.pc # "send"
      /\ \A e \in Range(submitted[p]) : ~BagIn(e, delivered)
      /\ \A x \in threw : x.op # "publishEvent"

\* C2's case: two events submitted while a connect attempt is in flight and
\* has already made its handle.
C2_Witness ==
  \E p \in Pubs :
    /\ markedAt[p] = 0
    /\ Len(submitted[p]) >= 2
    /\ publisher[p] # Null
    /\ \E t \in Connecting(p) : t.pc = "open"

\* How often event e is in a queue, in a send() that has not completed, and
\* successfully sent.
Queued(e) ==
  Cardinality({ x \in UNION { { <<p, i>> : i \in DOMAIN eventQueue[p] } : p \in Pubs } :
                  eventQueue[x[1]][x[2]].id = e })
Sending(e) ==
  BagCardinality([t \in { u \in Running : u.pc = "send" /\ u.ev.id = e } |-> tasks[t]])
Sent(e) == CopiesIn(e, delivered)

\* C3: every event publishEvent accepted is in exactly one place: in a queue,
\* in a send() that has not completed, or successfully sent, and then once.
C3_NoLossNoDuplicate ==
  \A e \in 1..(nextEvent - 1) : Queued(e) + Sending(e) + Sent(e) = 1

\* C3's case: with two connect attempts made, one event is sent, one is back
\* in the queue and one is in a send().
C3_Witness ==
  /\ attempts = 2
  /\ \E e \in 1..(nextEvent - 1) : Sent(e) = 1
  /\ \E e \in 1..(nextEvent - 1) : Queued(e) = 1
  /\ \E e \in 1..(nextEvent - 1) : Sending(e) = 1

\* The step is a send() that throws: a call suspended on a send is gone
\* and nothing was sent.
SendFails(t) ==
  /\ t.pc = "send"
  /\ CopiesIn(t, tasks') < CopiesIn(t, tasks)
  /\ delivered' = delivered

\* C4: when a send() fails on a connected publisher, the event goes to the
\* tail of the queue, the flag and the handle stay as they are, and no
\* error reaches the caller.
C4_SendFailureRequeues ==
  [][\A t \in Running :
       SendFails(t) /\ isConnected[t.pub] =>
         /\ eventQueue'[t.pub] = Append(eventQueue[t.pub], t.ev)
         /\ isConnected' = isConnected
         /\ publisher' = publisher
         /\ threw' = threw]_vars

\* C4's case: a connected publisher with its handle, no drain loop running,
\* and two serializable events in its queue, which only failed sends leave
\* there.
C4_Witness ==
  \E p \in Pubs :
    /\ isConnected[p] /\ publisher[p] # Null
    /\ Connecting(p) = {}
    /\ Len(SerialIds(eventQueue[p])) >= 1
    /\ Len(eventQueue[p]) >= 2

\* The step accepts an event from outside on instance p.
Accepts(p) == submitted'[p] # submitted[p]

\* C5: a connected publisher has its handle, and a publishEvent call on an
\* unconnected one appends its event to the queue and passes nothing to
\* send().
C5_ConnectedHasHandle ==
  /\ [](\A p \in Pubs : isConnected[p] => publisher[p] # Null)
  /\ [][\A p \in Pubs :
          Accepts(p) /\ ~isConnected[p] =>
            /\ Len(eventQueue'[p]) = Len(eventQueue[p]) + 1
            /\ HandedOn(p, tasks, tasks') = {}]_vars

\* The background connect that line 64 starts on instance p.
Background(p) == ConnectTask(p, "ensure", NoEvent, Null, "bg", NoSource)

\* C6: publishEvent starts a background connect only when no connect
\* attempt of the publisher is in flight, so that at most one is in flight
\* at any time.
C6_SingleFlightConnect ==
  [][\A p \in Pubs :
       CopiesIn(Background(p), tasks') > CopiesIn(Background(p), tasks) =>
         /\ InFlight(p) = 0
         /\ InFlight(p)' <= 1]_vars

\* C7: when a connect() call throws to its caller, the publisher is left
\* unconnected: the flag false, no handle kept, the queue as it was.
C7_FailedConnectLeavesNothing ==
  [][\A x \in threw' \ threw :
       x.op = "connect" =>
         /\ ~isConnected'[x.pub]
         /\ publisher'[x.pub] = Null
         /\ eventQueue'[x.pub] = eventQueue[x.pub]]_vars

\* The step ends the close() that the suspended disconnect call t awaits.
CloseEnds(t) ==
  t.kind = "disconnect" /\ CopiesIn(t, tasks') < CopiesIn(t, tasks)

\* C12: no step of disconnect() changes the queue or throws to the caller;
\* called without a handle it changes nothing and suspends on nothing; and
\* when its close() has returned or thrown, the handle is cleared and the
\* flag is false.
C12_DisconnectKeepsPending ==
  [][/\ \A p \in Pubs :
          Disconnect(p) =>
            /\ eventQueue' = eventQueue
            /\ threw' = threw
            /\ publisher[p] = Null =>
                 UNCHANGED <<pubVars, regVars, tasks, closed, nextHandle,
                             nextEvent, attempts, histVars>>
     /\ \A t \in Running :
          CloseEnds(t) =>
            /\ eventQueue' = eventQueue
            /\ threw' = threw
            /\ publisher'[t.pub] = Null
            /\ ~isConnected'[t.pub]]_vars

\* C12's case: a handle was made and is gone without having been closed, so
\* a close() threw; the queue still holds events and nothing threw.
C12_Witness ==
  \E p \in Pubs :
    /\ nextHandle > 1 /\ closed = {}
    /\ publisher[p] = Null /\ ~isConnected[p]
    /\ Len(eventQueue[p]) >= 2
    /\ \A x \in threw : x.op = "connect"
    /\ tasks = EmptyBag

\* C13: no publishEvent call throws to its caller, whatever the publisher's
\* state: the only calls that throw are connect calls, and the failure of a
\* background connect goes to the handler of lines 64-66.
C13_PublishNeverThrows ==
  \A x \in threw : x.op # "publishEvent"

\* C13's case: the background connect that a publishEvent call started has
\* failed, and on the publisher, connected since, a send() has failed too:
\* its event is back in the queue with no drain loop running.
C13_Witness ==
  \E p \in Pubs :
    /\ [op |-> "connect", pub |-> p, caller |-> "bg"] \in threw
    /\ isConnected[p] /\ publisher[p] # Null
    /\ Connecting(p) = {}
    /\ SerialIds(eventQueue[p]) # <<>>

\* The connect() call that a caller outside the class makes on instance p.
Explicit(p) == ConnectTask(p, "ensure", NoEvent, Null, "ext", NoSource)

\* C16: a connect attempt starts only in the step of a connect() call made
\* from outside or of a publishEvent call made from outside on an
\* unconnected publisher: the publisher starts none on its own, also not
\* from the drain loop of a connect call.
C16_NoAutomaticRetry ==
  [][attempts' > attempts =>
       \E p \in Pubs :
         \/ Accepts(p) /\ ~isConnected[p]
         \/ CopiesIn(Explicit(p), tasks') > CopiesIn(Explicit(p), tasks)]_vars

\* The model stops a drain loop whose next step would start one connect
\* attempt more than MaxAttempts.
AtBound ==
  \E t \in Running :
    /\ t.kind = "connect" /\ t.pc = "loop"
    /\ eventQueue[t.pub] # <<>> /\ ~isConnected[t.pub]
    /\ attempts >= MaxAttempts

\* Every event in the queues can be serialized.
Serializable ==
  \A p \in Pubs : \A i \in DOMAIN eventQueue[p] : ~eventQueue[p][i].circular

\* C17: every connect() call returns or throws in the end, so that from
\* some time on none is in flight (the calls from outside are finitely
\* many), also when sends fail or disconnect() runs meanwhile.  Stated for
\* the runs in which every event can be serialized and which do not stop
\* at the bound on the attempts.
C17_ConnectReturns ==
  []~AtBound /\ []Serializable => <>[](\A p \in Pubs : Connecting(p) = {})

\* C18: a publisher has one open handle at most: a handle stops being the
\* publisher's current handle only when a close() called on that handle has
\* returned or thrown, also with several connect attempts in flight or
\* after a failed one.
C18_OneOpenHandle ==
  [][\A p \in Pubs :
       publisher[p] # Null /\ publisher'[p] # publisher[p] =>
         \E t \in Running : CloseEnds(t) /\ t.pub = p /\ t.h = publisher[p]]_vars

\* Every publisher is connected and has its handle.
Connected == \A p \in Pubs : isConnected[p] /\ publisher[p] # Null

\* No event is in a queue or in a send() that has not completed.
Drained ==
  /\ \A p \in Pubs : eventQueue[p] = <<>>
  /\ \A t \in Running : t.pc # "send"

\* C19: when the publisher is connected from some time on, every event in
\* its queue is sent in the end without any further call from outside, also
\* an event that a failed send() put back.  (The send() failures on an open
\* socket are finitely many in every run; stated for the runs in which
\* every event can be serialized.)
C19_PendingEventuallySent ==
  <>[]Connected /\ []Serializable => <>[]Drained

\* ---- properties of the registry ---------------------------------------------
\* The places of the Map that hold an entry.
Live == { i \in DOMAIN publisherInstances : publisherInstances[i] # Emptied }

\* The instance the Map holds for instance p's path is p.
Registered(p) == \E i \in Live : publisherInstances[i] = Entry(socketPath[p], p)

\* C8: between two clears of the registry, the getZmqPublisher calls for one
\* endpoint all return the same instance, calls for different endpoints
\* return different instances, and the Map holds each endpoint once.
C8_OneInstancePerEndpoint ==
  /\ \A k \in Endpoints : \A i, j \in DOMAIN got[k] : got[k][i] = got[k][j]
  /\ \A k1, k2 \in Endpoints : k1 # k2 => Range(got[k1]) \cap Range(got[k2]) = {}
  /\ \A i, j \in Live : publisherInstances[i].key = publisherInstances[j].key => i = j

\* C8's case: getZmqPublisher was called twice for one endpoint and once for
\* another.
C8_Witness ==
  \E k1, k2 \in Endpoints : k1 # k2 /\ Len(got[k1]) >= 2 /\ Len(got[k2]) >= 1

\* C9: when shutdownZmqPublisher() completes, which is when it clears the
\* Map, every instance that was registered is disconnected and the Map is
\* empty.
C9_ShutdownDisconnectsAll ==
  [][Live # {} /\ Live' = {} =>
       \A i \in Live :
         LET p == publisherInstances[i].inst IN
         ~isConnected'[p] /\ publisher'[p] = Null]_vars

\* Instance p is in use: a listener forwards to it or it holds a handle.
InUse(p) == p \in Listened \/ publisher[p] # Null

\* C10: there is one instance per endpoint and the registry owns it: every
\* instance that a listener forwards to or that holds a handle is the one
\* registered for its endpoint, so that no two of them share an endpoint.
C10_RegistryOwnsPublishers ==
  /\ \A p \in Pubs : InUse(p) => Registered(p)
  /\ \A p, q \in Pubs :
       InUse(p) /\ InUse(q) /\ socketPath[p] = socketPath[q] => p = q

\* ---- shutdown with connect attempts in flight --------------------------------
\* shutdownZmqPublisher() has not been called since the instances were made:
\* they are all registered and no call of it is suspended.
NoShutdownYet ==
  /\ \A p \in Pubs : Registered(p)
  /\ \A t \in Running : t.kind # "shutdown" /\ t.caller # "shutdown"

InitShutdown == Start(<<>>, MaxShutdownOps)

\* The registry when, once shutdownZmqPublisher() has been called, no
\* enableZmqPublishing call is made and no event is emitted any more: what
\* was started before goes on.
NextShutdown ==
  \/ NoShutdownYet /\ \E o \in OptionSet : Enable(o, "true", "recorder")
  \/ NoShutdownYet /\ \E event \in Events : Emit(event)
  \/ Shutdown
  \/ \E t \in Running : PublishSendOk(t)
  \/ \E t \in Running : PublishSendFail(t)
  \/ \E t \in Running : ConnectEnsured(t)
  \/ \E t \in Running : ConnectEnsureFail(t)
  \/ \E t \in Running : ConnectOpenFail(t)
  \/ \E t \in Running : ConnectSettled(t)
  \/ \E t \in Running : ConnectSendOk(t)
  \/ \E t \in Running : ConnectSendFail(t)
  \/ \E t \in Running : ConnectLoop(t)
  \/ \E t \in Running : DisconnectClosed(t)
  \/ \E t \in Running : DisconnectCloseFail(t)
  \/ \E t \in Running : ShutdownNext(t)
  \/ \E t \in Running : EnableReady(t)

SpecShutdown == InitShutdown /\ [][NextShutdown]_vars

\* C20: when shutdownZmqPublisher() has completed (the instance is no longer
\* registered) and every call made before it has finished, the connect
\* attempts that were in flight included, the instance is unconnected and
\* holds no handle.  (Stated for the instances none of whose connect calls
\* threw.)
C20_ShutdownEndsConnection ==
  \A p \in Pubs :
    /\ tasks = EmptyBag /\ ~Registered(p)
    /\ \A x \in threw : x.pub # p
    => ~isConnected[p] /\ publisher[p] = Null

\* ---- properties of the wiring ------------------------------------------------
\* C14: an enableZmqPublishing call made with zmq: false changes nothing:
\* no instance is made or registered, no connect attempt is started, no
\* listener is subscribed and no handler is installed.
C14_DisabledChangesNothing ==
  [][optedOut' # optedOut =>
       UNCHANGED <<pubVars, publisherInstances, listeners, onceHandlers, got,
                   invoked, tasks, closed, nextHandle, nextEvent, attempts,
                   histVars, threw>>]_vars

\* C14's case: such a call was made, and so was one that subscribed a
\* listener.
C14_Witness ==
  optedOut >= 1 /\ Len(listeners) >= 1

\* The events numbered e that the queues q hold or that the suspended calls
\* ts have passed to send().
Held(q, ts, e) ==
  UNION { { q[p][i] : i \in { j \in DOMAIN q[p] : q[p][j].id = e } } : p \in DOMAIN q }
    \cup { t.ev : t \in { u \in BagToSet(ts) : u.pc = "send" /\ u.ev.id = e } }

\* All the events the publishers hold.
Forwarded ==
  UNION { Range(eventQueue[p]) : p \in Pubs }
    \cup { t.ev : t \in { u \in Running : u.pc = "send" } }

\* C15: when an event is emitted, each listener gives publishEvent one
\* event: its source is the Source record of the listener's registration,
\* whatever source the emitted event carried, and the rest is as emitted;
\* and the Source record of a registration never changes.
C15_ForwardedEventsStamped ==
  [][/\ \A k \in DOMAIN listeners : listeners'[k] = listeners[k]
     /\ \A event \in Events :
          Emit(event) =>
            \A k \in DOMAIN listeners :
              Held(eventQueue', tasks', nextEvent + k - 1) =
                { [id |-> nextEvent + k - 1, source |-> listeners[k].src,
                   circular |-> event.circular] }]_vars

\* C15's case: two registrations with different Source records have
\* forwarded events.
C15_Witness ==
  \E e1, e2 \in Forwarded :
    e1.source.script = "unknown" /\ e2.source.script = "recorder"

\* ---- properties of the process events ----------------------------------------
\* C11: an occurrence of SIGINT, SIGTERM or exit invokes shutdownZmqPublisher
\* exactly once when handlers are installed for it, however many
\* enableZmqPublishing calls installed them, and not at all when the
\* handlers were used up by an earlier occurrence.
C11_SignalShutsDownOnce ==
  [][\A s \in Signals :
       invoked'[s] # invoked[s] =>
         invoked'[s][Len(invoked'[s])] = IF onceHandlers[s] > 0 THEN 1 ELSE 0]_vars

====
